---- MODULE Spec2Model ----
(***************************************************************************)
(* Model of the fastly_user resource (src/fastly/resource_fastly_user.go): *)
(* the invitation / accepted-user reconciliation of one managed entity     *)
(* against the remote account (its user list and its invitation list).     *)
(*                                                                         *)
(* Each lifecycle handler (Create, Read, Update, Delete, Import+Read) is   *)
(* one action, and so is the read of each of the two data sources.  The    *)
(* remote account changes out of band between handlers                     *)
(* (invitation accepted, invitation revoked, user added or removed).       *)
(* Every remote call of a handler may fail: the input k is the position    *)
(* of the failing call in the handler's sequence of calls (0 = none).      *)
(***************************************************************************)
EXTENDS Integers, Sequences, FiniteSets, TLC

\* ---------------------------------------------------------------- bounds
MaxUsers == 1           \* remote users created over a behaviour
MaxInvitations == 1     \* invitations created over a behaviour
MaxListLen == 2         \* length of the lists a lookup is tried on

Logins == {"a@x.com", "b@x.com"}   \* logins of the remote account
ConfigLogins == {"a@x.com"}        \* logins a configuration gives
Names == {"Alice"}                 \* names a configuration gives
RemoteNames == {"Bob"}             \* names users register under
RemoteRoles == {"user"}            \* roles given out of band

\* logins that differ in case only, and what they are when case is ignored
LookupLogins == {"a@x.com", "A@X.com"}
Fold(s) == IF s = "A@X.com" THEN "a@x.com" ELSE s

\* the largest number of remote calls one invocation of a handler makes
CreateCalls == 5
ReadCalls == 3
UpdateCalls == 2
DeleteCalls == 1
DataSourceCalls == 2

\* ids handed out by the remote system, in creation order
UserIDs == <<"u-1", "u-2", "u-3", "u-4">>
InvitationIDs == <<"inv-1", "inv-2", "inv-3", "inv-4">>

\* the account of the API key (GetCurrentUser().CustomerID)
CustomerID == "cust-1"

VARIABLES
    d,               \* the resource data of the managed entity (schema.ResourceData)
    users,           \* remote: the account's user list, in list order
    invitations,     \* remote: the invitation list, in list order
    nextUser,        \* remote: number of the next user id
    nextInvitation,  \* remote: number of the next invitation id
    last,            \* the step just taken: handler, its input, calls issued, error returned
    pair,            \* the resource data of two managed entities of different logins
    creating         \* two invocations of Create for one login, call by call

vars == <<d, users, invitations, nextUser, nextInvitation, last, pair, creating>>

\* ------------------------------------------------------------ the schema
\* role validation of the schema
validateUserRole == {"user", "billing", "engineer", "superuser"}

\* the roles configurations give
Roles == {"user", "engineer"}

\* the attributes of the resource, all unset
resourceUser ==
    [id |-> "", login |-> "", name |-> "", role |-> "",
     invitation_id |-> "", user_id |-> ""]

\* ---------------------------------------------------------- remote calls
Call(name, id, email, uname, role, customer) ==
    [name |-> name, id |-> id, email |-> email, uname |-> uname,
     role |-> role, customer |-> customer]

GetCurrentUserCall == Call("GetCurrentUser", "", "", "", "", "")
ListCustomerUsersCall == Call("ListCustomerUsers", "", "", "", "", CustomerID)
GetUserCall(id) == Call("GetUser", id, "", "", "", "")
UpdateUserCall(id, uname, role) == Call("UpdateUser", id, "", uname, role, "")
DeleteUserCall(id) == Call("DeleteUser", id, "", "", "", "")
ListInvitationsCall == Call("GET /invitations", "", "", "", "", "")
CreateInvitationCall(email, role, customer) ==
    Call("POST /invitations", "", email, "", role, customer)
DeleteInvitationCall(id) == Call("DELETE /invitations", id, "", "", "", "")

NilUser == [id |-> "", login |-> "", name |-> "", role |-> ""]
NilInvitation == [id |-> "", email |-> "", role |-> "", status_code |-> 0]

\* the first of the indices S of a list, 0 when there is none (the
\* "for ... range ... return" loops of the lookups)
FirstIndex(S) ==
    IF S = {} THEN 0 ELSE CHOOSE i \in S : \A j \in S : i <= j

RemoveAt(s, i) == SubSeq(s, 1, i - 1) \o SubSeq(s, i + 1, Len(s))

\* variant: a 404 is not told apart from the other failures
GetUserNotFoundIsError(us, id, k, n) ==
    LET i == FirstIndex({x \in 1..Len(us) : us[x].id = id})
    IN  IF k = n + 1 \/ i = 0 THEN [status |-> "error", user |-> NilUser]
        ELSE [status |-> "ok", user |-> us[i]]

\* conn.GetUser: the k-th call failing is a transport/5xx error, a missing
\* user is a 404
GetUser(us, id, k, n) ==
    LET i == FirstIndex({x \in 1..Len(us) : us[x].id = id})
    IN  IF k = n + 1 THEN [status |-> "error", user |-> NilUser]
        ELSE IF i = 0 THEN [status |-> "notfound", user |-> NilUser]
        ELSE [status |-> "ok", user |-> us[i]]

\* variant: the loop compares the login with the user's name, so that no
\* user is ever found by login
findUserByLoginNoMatch(us, login, k, n) ==
    LET i == FirstIndex({x \in 1..Len(us) : us[x].name = login})
    IN  IF k = n + 1
        THEN [err |-> TRUE, found |-> FALSE, user |-> NilUser,
              calls |-> <<GetCurrentUserCall>>]
        ELSE IF k = n + 2
        THEN [err |-> TRUE, found |-> FALSE, user |-> NilUser,
              calls |-> <<GetCurrentUserCall, ListCustomerUsersCall>>]
        ELSE [err |-> FALSE, found |-> i # 0,
              user |-> IF i = 0 THEN NilUser ELSE us[i],
              calls |-> <<GetCurrentUserCall, ListCustomerUsersCall>>]

\* variant: the logins are compared ignoring case
findUserByLoginEqualFold(us, login, k, n) ==
    LET i == FirstIndex({x \in 1..Len(us) : Fold(us[x].login) = Fold(login)})
    IN  IF k = n + 1
        THEN [err |-> TRUE, found |-> FALSE, user |-> NilUser,
              calls |-> <<GetCurrentUserCall>>]
        ELSE IF k = n + 2
        THEN [err |-> TRUE, found |-> FALSE, user |-> NilUser,
              calls |-> <<GetCurrentUserCall, ListCustomerUsersCall>>]
        ELSE [err |-> FALSE, found |-> i # 0,
              user |-> IF i = 0 THEN NilUser ELSE us[i],
              calls |-> <<GetCurrentUserCall, ListCustomerUsersCall>>]

\* findUserByLogin: GetCurrentUser, ListCustomerUsers, first user whose
\* login equals the login
findUserByLogin(us, login, k, n) ==
    LET i == FirstIndex({x \in 1..Len(us) : us[x].login = login})
    IN  IF k = n + 1
        THEN [err |-> TRUE, found |-> FALSE, user |-> NilUser,
              calls |-> <<GetCurrentUserCall>>]
        ELSE IF k = n + 2
        THEN [err |-> TRUE, found |-> FALSE, user |-> NilUser,
              calls |-> <<GetCurrentUserCall, ListCustomerUsersCall>>]
        ELSE [err |-> FALSE, found |-> i # 0,
              user |-> IF i = 0 THEN NilUser ELSE us[i],
              calls |-> <<GetCurrentUserCall, ListCustomerUsersCall>>]

\* listInvitations: one GET /invitations
listInvitations(invs, k, n) ==
    IF k = n + 1
    THEN [err |-> TRUE, data |-> <<>>, calls |-> <<ListInvitationsCall>>]
    ELSE [err |-> FALSE, data |-> invs, calls |-> <<ListInvitationsCall>>]

\* variant: the Invitation returned carries the email in its ID field
findInvitationByEmailWrongId(invs, email, k, n) ==
    LET l == listInvitations(invs, k, n)
        i == FirstIndex({x \in 1..Len(l.data) : l.data[x].email = email})
    IN  IF l.err
        THEN [err |-> TRUE, found |-> FALSE, invitation |-> NilInvitation,
              calls |-> l.calls]
        ELSE [err |-> FALSE, found |-> i # 0,
              invitation |-> IF i = 0 THEN NilInvitation
                             ELSE [l.data[i] EXCEPT !.id = l.data[i].email],
              calls |-> l.calls]

\* variant: a failed list request counts as an empty list
findInvitationByEmailSwallowsError(invs, email, k, n) ==
    LET l == listInvitations(invs, k, n)
        i == FirstIndex({x \in 1..Len(l.data) : l.data[x].email = email})
    IN  [err |-> FALSE, found |-> i # 0,
         invitation |-> IF i = 0 THEN NilInvitation ELSE l.data[i],
         calls |-> l.calls]

\* variant: the first invitation of the list is taken, whatever its email
findInvitationByEmailAnyEmail(invs, email, k, n) ==
    LET l == listInvitations(invs, k, n)
        i == FirstIndex({x \in 1..Len(l.data) : TRUE})
    IN  IF l.err
        THEN [err |-> TRUE, found |-> FALSE, invitation |-> NilInvitation,
              calls |-> l.calls]
        ELSE [err |-> FALSE, found |-> i # 0,
              invitation |-> IF i = 0 THEN NilInvitation ELSE l.data[i],
              calls |-> l.calls]

\* findInvitationByEmail: first invitation of the list whose email equals
\* the email
findInvitationByEmail(invs, email, k, n) ==
    LET l == listInvitations(invs, k, n)
        i == FirstIndex({x \in 1..Len(l.data) : l.data[x].email = email})
    IN  IF l.err
        THEN [err |-> TRUE, found |-> FALSE, invitation |-> NilInvitation,
              calls |-> l.calls]
        ELSE [err |-> FALSE, found |-> i # 0,
              invitation |-> IF i = 0 THEN NilInvitation ELSE l.data[i],
              calls |-> l.calls]

\* variant: an id that is not in the list is no error
getInvitationNoNotFound(invs, invitationID, k, n) ==
    LET l == listInvitations(invs, k, n)
        i == FirstIndex({x \in 1..Len(l.data) : l.data[x].id = invitationID})
    IN  IF l.err
        THEN [err |-> TRUE, invitation |-> NilInvitation, calls |-> l.calls]
        ELSE [err |-> FALSE,
              invitation |-> IF i = 0 THEN NilInvitation ELSE l.data[i],
              calls |-> l.calls]

\* getInvitation: the invitation of that id in the list; an error when the
\* list call fails and also when the id is not in the list
getInvitation(invs, invitationID, k, n) ==
    LET l == listInvitations(invs, k, n)
        i == FirstIndex({x \in 1..Len(l.data) : l.data[x].id = invitationID})
    IN  IF l.err \/ i = 0
        THEN [err |-> TRUE, invitation |-> NilInvitation, calls |-> l.calls]
        ELSE [err |-> FALSE, invitation |-> l.data[i], calls |-> l.calls]

\* variant: the request leaves the role out, the remote system applies its
\* default role
createInvitationDefaultRole(invs, nextInv, email, role, customerID, k, n) ==
    LET c == <<CreateInvitationCall(email, "", customerID)>>
        inv == [id |-> InvitationIDs[nextInv], email |-> email,
                role |-> "user", status_code |-> 0]
    IN  IF k = n + 1
        THEN [err |-> TRUE, id |-> "", invitations |-> invs,
              nextInvitation |-> nextInv, calls |-> c]
        ELSE [err |-> FALSE, id |-> inv.id, invitations |-> Append(invs, inv),
              nextInvitation |-> nextInv + 1, calls |-> c]

\* variant: a failed request is sent a second time
createInvitationRetry(invs, nextInv, email, role, customerID, k, n) ==
    LET c == <<CreateInvitationCall(email, role, customerID)>>
        inv == [id |-> InvitationIDs[nextInv], email |-> email,
                role |-> role, status_code |-> 0]
    IN  IF k = n + 1
        THEN [err |-> TRUE, id |-> "", invitations |-> invs,
              nextInvitation |-> nextInv, calls |-> c \o c]
        ELSE [err |-> FALSE, id |-> inv.id, invitations |-> Append(invs, inv),
              nextInvitation |-> nextInv + 1, calls |-> c]

\* variant: the id of the new invitation is not read from the response
createInvitationNoId(invs, nextInv, email, role, customerID, k, n) ==
    LET c == <<CreateInvitationCall(email, role, customerID)>>
        inv == [id |-> InvitationIDs[nextInv], email |-> email,
                role |-> role, status_code |-> 0]
    IN  IF k = n + 1
        THEN [err |-> TRUE, id |-> "", invitations |-> invs,
              nextInvitation |-> nextInv, calls |-> c]
        ELSE [err |-> FALSE, id |-> "", invitations |-> Append(invs, inv),
              nextInvitation |-> nextInv + 1, calls |-> c]

\* createInvitation: POST /invitations; the remote system appends the new
\* invitation and answers with its id
createInvitation(invs, nextInv, email, role, customerID, k, n) ==
    LET c == <<CreateInvitationCall(email, role, customerID)>>
        inv == [id |-> InvitationIDs[nextInv], email |-> email,
                role |-> role, status_code |-> 0]
    IN  IF k = n + 1
        THEN [err |-> TRUE, id |-> "", invitations |-> invs,
              nextInvitation |-> nextInv, calls |-> c]
        ELSE [err |-> FALSE, id |-> inv.id, invitations |-> Append(invs, inv),
              nextInvitation |-> nextInv + 1, calls |-> c]

\* ------------------------------------------------- changes of the resource data
SetId(rd, id) == [rd EXCEPT !.id = id]

\* Create, an existing user: d.SetId(user id), user_id, invitation_id = ""
AdoptUser(rd, u) ==
    [rd EXCEPT !.id = u.id, !.user_id = u.id, !.invitation_id = ""]

\* variant: the id of the invitation is stored as user_id
TrackInvitationAsUser(rd, invitationID) ==
    [rd EXCEPT !.id = invitationID, !.user_id = invitationID,
               !.invitation_id = ""]

\* variant: d.SetId is left out
TrackInvitationNoSetId(rd, invitationID) ==
    [rd EXCEPT !.invitation_id = invitationID, !.user_id = ""]

\* Create, an existing or a new invitation: d.SetId(invitation id),
\* invitation_id, user_id = ""
TrackInvitation(rd, invitationID) ==
    [rd EXCEPT !.id = invitationID, !.invitation_id = invitationID,
               !.user_id = ""]

\* variant: the role is not taken over
RefreshAttributesNoRole(rd, u) ==
    [rd EXCEPT !.login = u.login, !.name = u.name]

\* Read: login, name and role from the remote user
RefreshAttributes(rd, u) ==
    [rd EXCEPT !.login = u.login, !.name = u.name, !.role = u.role]

\* variant: d.SetId(newUserID) is left out
AcceptTransitionNoSetId(rd, u) ==
    RefreshAttributes([rd EXCEPT !.user_id = u.id, !.invitation_id = ""], u)

\* variant: invitation_id is not cleared
AcceptTransitionKeepsInvitation(rd, u) ==
    RefreshAttributes([rd EXCEPT !.id = u.id, !.user_id = u.id], u)

\* variant: the role of the state is kept
AcceptTransitionKeepsRole(rd, u) ==
    [rd EXCEPT !.id = u.id, !.user_id = u.id, !.invitation_id = "",
               !.login = u.login, !.name = u.name]

\* Read of a pending invitation whose user now exists
AcceptTransition(rd, u) ==
    RefreshAttributes(
        [rd EXCEPT !.id = u.id, !.user_id = u.id, !.invitation_id = ""], u)

\* variant: user_id is not set from the id
ImportTransitionNoUserId(rd, u) ==
    RefreshAttributes([rd EXCEPT !.invitation_id = ""], u)

\* variant: login, name and role are not taken from the user
ImportTransitionNoRefresh(rd, u) ==
    [rd EXCEPT !.user_id = rd.id, !.invitation_id = ""]

\* Read of an imported id that is a user id
ImportTransition(rd, u) ==
    RefreshAttributes([rd EXCEPT !.user_id = rd.id, !.invitation_id = ""], u)

\* ------------------------------------------------------------- handlers
\* variant: when the user is gone, Read falls back to an invitation that is
\* listed for the login
resourceUserReadFallsBack(rd, us, invs, k, n) ==
    IF rd.user_id # ""
    THEN LET r == GetUser(us, rd.user_id, k, n)
             c == <<GetUserCall(rd.user_id)>>
             g == findInvitationByEmail(invs, rd.login, 0, 0)
         IN  CASE r.status = "error" ->
                    [d |-> rd, calls |-> c, err |-> "RemoteError"]
               [] r.status = "notfound" ->
                    [d |-> IF g.found THEN TrackInvitation(rd, g.invitation.id)
                           ELSE SetId(rd, ""),
                     calls |-> c, err |-> ""]
               [] OTHER ->
                    [d |-> RefreshAttributes(rd, r.user), calls |-> c, err |-> ""]
    ELSE IF rd.invitation_id # ""
    THEN LET f == findUserByLogin(us, rd.login, k, n)
             g == getInvitation(invs, rd.invitation_id, k, n + 2)
         IN  IF f.err
             THEN [d |-> rd, calls |-> f.calls, err |-> "RemoteError"]
             ELSE IF f.found
             THEN [d |-> AcceptTransition(rd, f.user), calls |-> f.calls, err |-> ""]
             ELSE IF g.err
             THEN [d |-> SetId(rd, ""), calls |-> f.calls \o g.calls, err |-> ""]
             ELSE [d |-> rd, calls |-> f.calls \o g.calls, err |-> ""]
    ELSE LET r == GetUser(us, rd.id, k, n)
             c == <<GetUserCall(rd.id)>>
         IN  CASE r.status = "error" ->
                    [d |-> rd, calls |-> c, err |-> "RemoteError"]
               [] r.status = "notfound" ->
                    [d |-> SetId(rd, ""), calls |-> c, err |-> ""]
               [] OTHER ->
                    [d |-> ImportTransition(rd, r.user), calls |-> c, err |-> ""]

\* resourceUserRead; n is the number of remote calls the caller has made
resourceUserRead(rd, us, invs, k, n) ==
    IF rd.user_id # ""
    THEN LET r == GetUser(us, rd.user_id, k, n)
             c == <<GetUserCall(rd.user_id)>>
         IN  CASE r.status = "error" ->
                    [d |-> rd, calls |-> c, err |-> "RemoteError"]
               [] r.status = "notfound" ->
                    [d |-> SetId(rd, ""), calls |-> c, err |-> ""]
               [] OTHER ->
                    [d |-> RefreshAttributes(rd, r.user), calls |-> c, err |-> ""]
    ELSE IF rd.invitation_id # ""
    THEN LET f == findUserByLogin(us, rd.login, k, n)
             g == getInvitation(invs, rd.invitation_id, k, n + 2)
         IN  IF f.err
             THEN [d |-> rd, calls |-> f.calls, err |-> "RemoteError"]
             ELSE IF f.found
             THEN [d |-> AcceptTransition(rd, f.user), calls |-> f.calls, err |-> ""]
             ELSE IF g.err
             THEN [d |-> SetId(rd, ""), calls |-> f.calls \o g.calls, err |-> ""]
             ELSE [d |-> rd, calls |-> f.calls \o g.calls, err |-> ""]
    ELSE LET r == GetUser(us, rd.id, k, n)
             c == <<GetUserCall(rd.id)>>
         IN  CASE r.status = "error" ->
                    [d |-> rd, calls |-> c, err |-> "RemoteError"]
               [] r.status = "notfound" ->
                    [d |-> SetId(rd, ""), calls |-> c, err |-> ""]
               [] OTHER ->
                    [d |-> ImportTransition(rd, r.user), calls |-> c, err |-> ""]

\* resourceUserCreate on the configured login, name and role
resourceUserCreate(cfg, us, invs, nextInv, k) ==
    LET rd == [resourceUser EXCEPT !.login = cfg.login, !.name = cfg.name,
                                   !.role = cfg.role]
        f == findUserByLogin(us, rd.login, k, 0)
        r == resourceUserRead(AdoptUser(rd, f.user), us, invs, k, 2)
        g == findInvitationByEmail(invs, rd.login, k, 2)
        gcu == f.calls \o g.calls \o <<GetCurrentUserCall>>
        c == createInvitation(invs, nextInv, rd.login, rd.role, CustomerID, k, 4)
        Out(nd, calls, err, ninvs, nnext) ==
            [d |-> nd, calls |-> calls, err |-> err, invitations |-> ninvs,
             nextInvitation |-> nnext]
    IN  IF f.err
        THEN Out(rd, f.calls, "RemoteError", invs, nextInv)
        ELSE IF f.found
        THEN Out(r.d, f.calls \o r.calls, r.err, invs, nextInv)
        ELSE IF g.err
        THEN Out(rd, f.calls \o g.calls, "RemoteError", invs, nextInv)
        ELSE IF g.found
        THEN Out(TrackInvitation(rd, g.invitation.id), f.calls \o g.calls, "",
                 invs, nextInv)
        ELSE IF k = 4
        THEN Out(rd, gcu, "RemoteError", invs, nextInv)
        ELSE IF c.err
        THEN Out(rd, gcu \o c.calls, "RemoteError", invs, nextInv)
        ELSE Out(TrackInvitation(rd, c.id), gcu \o c.calls, "",
                 c.invitations, c.nextInvitation)

\* conn.UpdateUser: a missing user is answered with a 404, which is an error
UpdateUser(us, id, uname, role, k, n) ==
    LET i == FirstIndex({x \in 1..Len(us) : us[x].id = id})
    IN  IF k = n + 1 \/ i = 0
        THEN [err |-> TRUE, users |-> us]
        ELSE [err |-> FALSE,
              users |-> [us EXCEPT ![i].name = uname, ![i].role = role]]

\* variant: the change is accepted silently
UpdatePendingSilent(rd, HasChanges, us) ==
    [d |-> rd, calls |-> <<>>, err |-> "", users |-> us]

\* resourceUserUpdate while no user_id is set: a change of name or role is
\* refused, nothing is called
UpdatePending(rd, HasChanges, us) ==
    [d |-> rd, calls |-> <<>>,
     err |-> IF HasChanges THEN "PreconditionError" ELSE "", users |-> us]

\* variant: the state is not read back after the update
resourceUserUpdateNoRead(prior, cfgName, cfgRole, us, invs, k) ==
    LET rd == [prior EXCEPT !.name = cfgName, !.role = cfgRole]
        HasChanges == cfgName # prior.name \/ cfgRole # prior.role
        c == <<UpdateUserCall(rd.user_id, rd.name, rd.role)>>
        u == UpdateUser(us, rd.user_id, rd.name, rd.role, k, 0)
        Out(nd, calls, err, nus) ==
            [d |-> nd, calls |-> calls, err |-> err, users |-> nus]
    IN  IF rd.user_id = ""
        THEN UpdatePending(rd, HasChanges, us)
        ELSE IF HasChanges
        THEN IF u.err
             THEN Out(rd, c, "RemoteError", us)
             ELSE Out(rd, c, "", u.users)
        ELSE Out(rd, <<>>, "", us)

\* resourceUserUpdate on the prior state and the configured name and role:
\* d.Get gives the configured values, d.HasChanges compares them with the
\* prior state
resourceUserUpdate(prior, cfgName, cfgRole, us, invs, k) ==
    LET rd == [prior EXCEPT !.name = cfgName, !.role = cfgRole]
        HasChanges == cfgName # prior.name \/ cfgRole # prior.role
        c == <<UpdateUserCall(rd.user_id, rd.name, rd.role)>>
        u == UpdateUser(us, rd.user_id, rd.name, rd.role, k, 0)
        r1 == resourceUserRead(rd, u.users, invs, k, 1)
        r0 == resourceUserRead(rd, us, invs, k, 0)
        Out(nd, calls, err, nus) ==
            [d |-> nd, calls |-> calls, err |-> err, users |-> nus]
    IN  IF rd.user_id = ""
        THEN UpdatePending(rd, HasChanges, us)
        ELSE IF HasChanges
        THEN IF u.err
             THEN Out(rd, c, "RemoteError", us)
             ELSE Out(r1.d, c \o r1.calls, r1.err, u.users)
        ELSE Out(r0.d, r0.calls, r0.err, us)

\* variant: a 404 is not told apart from the other failures
DeleteUserNotFoundIsError(us, id, k, n) ==
    LET i == FirstIndex({x \in 1..Len(us) : us[x].id = id})
    IN  IF k = n + 1 \/ i = 0 THEN [status |-> "error", users |-> us]
        ELSE [status |-> "ok", users |-> RemoveAt(us, i)]

\* conn.DeleteUser: "error" is a failure other than not-found
DeleteUser(us, id, k, n) ==
    LET i == FirstIndex({x \in 1..Len(us) : us[x].id = id})
    IN  IF k = n + 1 THEN [status |-> "error", users |-> us]
        ELSE IF i = 0 THEN [status |-> "notfound", users |-> us]
        ELSE [status |-> "ok", users |-> RemoveAt(us, i)]

\* variant: the request goes to a path that deletes nothing
deleteInvitationKeepsInvitation(invs, invitationID, k, n) ==
    IF k = n + 1 THEN [err |-> TRUE, invitations |-> invs]
    ELSE [err |-> FALSE, invitations |-> invs]

\* deleteInvitation: DELETE /invitations/<id>; 200, 204 and 404 are no
\* error, a failed request or another status is
deleteInvitation(invs, invitationID, k, n) ==
    LET i == FirstIndex({x \in 1..Len(invs) : invs[x].id = invitationID})
    IN  IF k = n + 1 THEN [err |-> TRUE, invitations |-> invs]
        ELSE IF i = 0 THEN [err |-> FALSE, invitations |-> invs]
        ELSE [err |-> FALSE, invitations |-> RemoveAt(invs, i)]

\* variant: the error of deleteInvitation is returned
resourceUserDeleteReturnsError(rd, us, invs, k) ==
    LET du == DeleteUser(us, rd.user_id, k, 0)
        di == deleteInvitation(invs, rd.invitation_id, k, 0)
        Out(calls, err, nus, ninvs) ==
            [d |-> rd, calls |-> calls, err |-> err, users |-> nus,
             invitations |-> ninvs]
    IN  IF rd.user_id # ""
        THEN IF du.status = "error"
             THEN Out(<<DeleteUserCall(rd.user_id)>>, "RemoteError", us, invs)
             ELSE Out(<<DeleteUserCall(rd.user_id)>>, "", du.users, invs)
        ELSE IF rd.invitation_id # ""
        THEN Out(<<DeleteInvitationCall(rd.invitation_id)>>,
                 IF di.err THEN "RemoteError" ELSE "", us, di.invitations)
        ELSE Out(<<>>, "", us, invs)

\* variant: a user is left alone, only invitations are deleted
resourceUserDeleteSkipsUser(rd, us, invs, k) ==
    LET di == deleteInvitation(invs, rd.invitation_id, k, 0)
        Out(calls, err, nus, ninvs) ==
            [d |-> rd, calls |-> calls, err |-> err, users |-> nus,
             invitations |-> ninvs]
    IN  IF rd.user_id # ""
        THEN Out(<<>>, "", us, invs)
        ELSE IF rd.invitation_id # ""
        THEN Out(<<DeleteInvitationCall(rd.invitation_id)>>, "", us,
                 di.invitations)
        ELSE Out(<<>>, "", us, invs)

\* resourceUserDelete
resourceUserDelete(rd, us, invs, k) ==
    LET du == DeleteUser(us, rd.user_id, k, 0)
        di == deleteInvitation(invs, rd.invitation_id, k, 0)
        Out(calls, err, nus, ninvs) ==
            [d |-> rd, calls |-> calls, err |-> err, users |-> nus,
             invitations |-> ninvs]
    IN  IF rd.user_id # ""
        THEN IF du.status = "error"
             THEN Out(<<DeleteUserCall(rd.user_id)>>, "RemoteError", us, invs)
             ELSE Out(<<DeleteUserCall(rd.user_id)>>, "", du.users, invs)
        ELSE IF rd.invitation_id # ""
        THEN Out(<<DeleteInvitationCall(rd.invitation_id)>>, "", us,
                 di.invitations)
        ELSE Out(<<>>, "", us, invs)

\* dataSourceFastlyUsersRead: GetCurrentUser, ListCustomerUsers, one entry
\* per user in list order, the customer id as id of the data source
dataSourceFastlyUsersRead(us, k) ==
    IF k = 1
    THEN [id |-> "", items |-> <<>>, calls |-> <<GetCurrentUserCall>>,
          err |-> "RemoteError"]
    ELSE IF k = 2
    THEN [id |-> "", items |-> <<>>,
          calls |-> <<GetCurrentUserCall, ListCustomerUsersCall>>,
          err |-> "RemoteError"]
    ELSE [id |-> CustomerID,
          items |-> [i \in 1..Len(us) |->
                        [id |-> us[i].id, login |-> us[i].login,
                         name |-> us[i].name, role |-> us[i].role,
                         customer_id |-> CustomerID]],
          calls |-> <<GetCurrentUserCall, ListCustomerUsersCall>>,
          err |-> ""]

\* variant: only the invitations that are still pending are listed
dataSourceFastlyInvitationsReadPendingOnly(invs, k) ==
    LET l == listInvitations(invs, k, 1)
        c == <<GetCurrentUserCall>>
        pending == SelectSeq(l.data, LAMBDA inv : inv.status_code = 0)
    IN  IF k = 1
        THEN [id |-> "", items |-> <<>>, calls |-> c, err |-> "RemoteError"]
        ELSE IF l.err
        THEN [id |-> "", items |-> <<>>, calls |-> c \o l.calls,
              err |-> "RemoteError"]
        ELSE [id |-> CustomerID,
              items |-> [i \in 1..Len(pending) |->
                            [id |-> pending[i].id, email |-> pending[i].email,
                             role |-> pending[i].role,
                             status_code |-> pending[i].status_code]],
              calls |-> c \o l.calls, err |-> ""]

\* dataSourceFastlyInvitationsRead: GetCurrentUser, listInvitations, one
\* entry per invitation in list order, the customer id as id
dataSourceFastlyInvitationsRead(invs, k) ==
    LET l == listInvitations(invs, k, 1)
        c == <<GetCurrentUserCall>>
    IN  IF k = 1
        THEN [id |-> "", items |-> <<>>, calls |-> c, err |-> "RemoteError"]
        ELSE IF l.err
        THEN [id |-> "", items |-> <<>>, calls |-> c \o l.calls,
              err |-> "RemoteError"]
        ELSE [id |-> CustomerID,
              items |-> [i \in 1..Len(l.data) |->
                            [id |-> l.data[i].id, email |-> l.data[i].email,
                             role |-> l.data[i].role,
                             status_code |-> l.data[i].status_code]],
              calls |-> c \o l.calls, err |-> ""]

\* ---------------------------------------------------------------- state
\* what the remote system answers to the i-th call of a handler whose k-th
\* call fails: "error" is a failed request or a status that is neither a
\* success nor 404, "notfound" is a 404 for an id the account does not hold
Answer(call, i, k, us, invs) ==
    IF i = k THEN "error"
    ELSE IF call.name \in {"GetUser", "UpdateUser", "DeleteUser"}
    THEN IF \E x \in 1..Len(us) : us[x].id = call.id THEN "ok" ELSE "notfound"
    ELSE IF call.name = "DELETE /invitations"
    THEN IF \E x \in 1..Len(invs) : invs[x].id = call.id THEN "ok" ELSE "notfound"
    ELSE "ok"

Answers(calls, k, us, invs) ==
    [i \in 1..Len(calls) |-> Answer(calls[i], i, k, us, invs)]

\* cfg: the configuration the handler was given; again: this Create directly
\* follows a successful Create of the same login; out: what a data source
\* has read
NoCfg == [login |-> "", name |-> "", role |-> ""]
NoOut == [id |-> "", items |-> <<>>]

Step(op, calls, answers, err, cfg, again, out) ==
    [op |-> op, calls |-> calls, answers |-> answers, err |-> err,
     cfg |-> cfg, again |-> again, out |-> out]

\* no second entity, no concurrent Create
NoPair == <<resourceUser, resourceUser>>
NotCreating == <<>>

Init ==
    /\ d = resourceUser
    /\ users = <<>>
    /\ invitations = <<>>
    /\ nextUser = 1
    /\ nextInvitation = 1
    /\ last = Step("init", <<>>, <<>>, "", NoCfg, FALSE, NoOut)
    /\ pair = NoPair
    /\ creating = NotCreating

\* the host calls Read, Update and Delete only for an entity it holds a
\* state of, which is one with a resource id
Tracked == d.id # ""

\* what the host keeps of the resource data a handler leaves: nothing when
\* the resource id is empty
Persist(nd) == IF nd.id = "" THEN resourceUser ELSE nd

\* In every handler action k is the position of the call that fails; a
\* position past the last call the handler makes is the run without failure,
\* which is k = 0.
Create(login, name, role, k) ==
    LET cfg == [login |-> login, name |-> name, role |-> role]
        out == resourceUserCreate(cfg, users, invitations, nextInvitation, k)
    IN  /\ k <= Len(out.calls)
        /\ out.nextInvitation # nextInvitation => nextInvitation <= MaxInvitations
        /\ d' = Persist(out.d)
        /\ invitations' = out.invitations
        /\ nextInvitation' = out.nextInvitation
        /\ last' = Step("create", out.calls,
                       Answers(out.calls, k, users, invitations), out.err, cfg,
                       last.op = "create" /\ last.err = "" /\ d.login = login,
                       NoOut)
        /\ UNCHANGED <<users, nextUser, pair, creating>>

Read(k) ==
    LET out == resourceUserRead(d, users, invitations, k, 0)
    IN  /\ Tracked
        /\ k <= Len(out.calls)
        /\ d' = Persist(out.d)
        /\ last' = Step("read", out.calls,
                       Answers(out.calls, k, users, invitations), out.err,
                       NoCfg, FALSE, NoOut)
        /\ UNCHANGED <<users, invitations, nextUser, nextInvitation, pair, creating>>

Update(name, role, k) ==
    LET out == resourceUserUpdate(d, name, role, users, invitations, k)
    IN  /\ Tracked
        /\ k <= Len(out.calls)
        /\ d' = Persist(out.d)
        /\ users' = out.users
        /\ last' = Step("update", out.calls,
                       Answers(out.calls, k, users, invitations), out.err,
                       [login |-> d.login, name |-> name, role |-> role],
                       FALSE, NoOut)
        /\ UNCHANGED <<invitations, nextUser, nextInvitation, pair, creating>>

\* the host drops the state of an entity whose Delete succeeded
Delete(k) ==
    LET out == resourceUserDelete(d, users, invitations, k)
    IN  /\ Tracked
        /\ k <= Len(out.calls)
        /\ d' = IF out.err = "" THEN resourceUser ELSE out.d
        /\ users' = out.users
        /\ invitations' = out.invitations
        /\ last' = Step("delete", out.calls,
                       Answers(out.calls, k, users, invitations), out.err,
                       NoCfg, FALSE, NoOut)
        /\ UNCHANGED <<nextUser, nextInvitation, pair, creating>>

\* import by id (the importer passes the id through), then Read; the host
\* keeps nothing of an import that failed
Import(id, k) ==
    LET out == resourceUserRead(SetId(resourceUser, id), users, invitations, k, 0)
    IN  /\ ~Tracked
        /\ k <= Len(out.calls)
        /\ d' = IF out.err = "" THEN Persist(out.d) ELSE d
        /\ last' = Step("import", out.calls,
                       Answers(out.calls, k, users, invitations), out.err,
                       NoCfg, FALSE, NoOut)
        /\ UNCHANGED <<users, invitations, nextUser, nextInvitation, pair, creating>>

\* the data source fastly_users is read
DataSourceUsers(k) ==
    LET out == dataSourceFastlyUsersRead(users, k)
    IN  /\ k <= Len(out.calls)
        /\ last' = Step("data_users", out.calls,
                       Answers(out.calls, k, users, invitations), out.err,
                       NoCfg, FALSE, [id |-> out.id, items |-> out.items])
        /\ UNCHANGED <<d, users, invitations, nextUser, nextInvitation, pair, creating>>

\* the data source fastly_invitations is read
DataSourceInvitations(k) ==
    LET out == dataSourceFastlyInvitationsRead(invitations, k)
    IN  /\ k <= Len(out.calls)
        /\ last' = Step("data_invitations", out.calls,
                       Answers(out.calls, k, users, invitations), out.err,
                       NoCfg, FALSE, [id |-> out.id, items |-> out.items])
        /\ UNCHANGED <<d, users, invitations, nextUser, nextInvitation, pair, creating>>

\* ------------------------------------- the remote account, out of band
Remote == Step("remote", <<>>, <<>>, "", NoCfg, FALSE, NoOut)

\* the invitee accepts invitation i: the user appears; the invitation
\* leaves the list or stays in it with another status code
RemoteAccept(i, name, keep) ==
    /\ i \in 1..Len(invitations)
    /\ nextUser <= MaxUsers
    /\ users' = Append(users, [id |-> UserIDs[nextUser],
                               login |-> invitations[i].email,
                               name |-> name, role |-> invitations[i].role])
    /\ nextUser' = nextUser + 1
    /\ invitations' = IF keep
                       THEN [invitations EXCEPT ![i].status_code = 1]
                       ELSE RemoveAt(invitations, i)
    /\ last' = Remote
    /\ UNCHANGED <<d, nextInvitation, pair, creating>>

\* invitation i expires or is revoked
RemoteRevoke(i) ==
    /\ i \in 1..Len(invitations)
    /\ invitations' = RemoveAt(invitations, i)
    /\ last' = Remote
    /\ UNCHANGED <<d, users, nextUser, nextInvitation, pair, creating>>

\* somebody else invites a login
RemoteInvite(email, role) ==
    /\ nextInvitation <= MaxInvitations
    /\ invitations' = Append(invitations, [id |-> InvitationIDs[nextInvitation],
                                           email |-> email, role |-> role,
                                           status_code |-> 0])
    /\ nextInvitation' = nextInvitation + 1
    /\ last' = Remote
    /\ UNCHANGED <<d, users, nextUser, pair, creating>>

\* a user is added to the account by other means
RemoteAddUser(login, name, role) ==
    /\ nextUser <= MaxUsers
    /\ users' = Append(users, [id |-> UserIDs[nextUser], login |-> login,
                               name |-> name, role |-> role])
    /\ nextUser' = nextUser + 1
    /\ last' = Remote
    /\ UNCHANGED <<d, invitations, nextInvitation, pair, creating>>

\* user i is removed from the account by other means
RemoteRemoveUser(i) ==
    /\ i \in 1..Len(users)
    /\ users' = RemoveAt(users, i)
    /\ last' = Remote
    /\ UNCHANGED <<d, invitations, nextUser, nextInvitation, pair, creating>>

ImportIDs ==
    {UserIDs[i] : i \in 1..MaxUsers} \cup {InvitationIDs[i] : i \in 1..MaxInvitations}

Next ==
    \/ \E login \in ConfigLogins, name \in Names, role \in Roles, k \in 0..CreateCalls :
          Create(login, name, role, k)
    \/ \E k \in 0..ReadCalls : Read(k)
    \/ \E name \in Names, role \in Roles, k \in 0..UpdateCalls : Update(name, role, k)
    \/ \E k \in 0..DeleteCalls : Delete(k)
    \/ \E id \in ImportIDs, k \in 0..ReadCalls : Import(id, k)
    \/ \E k \in 0..DataSourceCalls : DataSourceUsers(k)
    \/ \E k \in 0..DataSourceCalls : DataSourceInvitations(k)
    \/ \E i \in 1..MaxInvitations, name \in RemoteNames, keep \in BOOLEAN :
          RemoteAccept(i, name, keep)
    \/ \E i \in 1..MaxInvitations : RemoteRevoke(i)
    \/ \E email \in Logins, role \in RemoteRoles : RemoteInvite(email, role)
    \/ \E login \in Logins, name \in RemoteNames, role \in RemoteRoles :
          RemoteAddUser(login, name, role)
    \/ \E i \in 1..MaxUsers : RemoteRemoveUser(i)

Spec == Init /\ [][Next]_vars

\* ------------------------------------------- the lookups on any two lists
\* Create on an account whose user list and invitation list are any lists of
\* up to MaxListLen records, with logins that repeat or differ in case only
ListsOf(S) == UNION {[1..m -> S] : m \in 0..MaxListLen}

InitLookup ==
    /\ d = resourceUser
    /\ users \in {[i \in 1..Len(l) |->
                     [id |-> UserIDs[i], login |-> l[i], name |-> "Bob",
                      role |-> "user"]] : l \in ListsOf(LookupLogins)}
    /\ invitations \in {[i \in 1..Len(l) |->
                           [id |-> InvitationIDs[i], email |-> l[i],
                            role |-> "user", status_code |-> 0]] :
                         l \in ListsOf(LookupLogins)}
    /\ nextUser = Len(users) + 1
    /\ nextInvitation = Len(invitations) + 1
    /\ last = Step("init", <<>>, <<>>, "", NoCfg, FALSE, NoOut)
    /\ pair = NoPair
    /\ creating = NotCreating

NextLookup ==
    \E login \in ConfigLogins, name \in Names, role \in Roles, k \in 0..CreateCalls :
        Create(login, name, role, k)

SpecLookup == InitLookup /\ [][NextLookup]_vars

\* ------------------------------------- two entities of different logins
\* The host manages two entities, one per login; their handlers run one at
\* a time in any order, each on the resource data of its entity, against the
\* one remote account.
PairLogins == <<"a@x.com", "b@x.com">>
Entities == {1, 2}
DefaultRoles == {"user"}   \* both entities are created with the default role

PairCreate(e, name, role, k) ==
    LET cfg == [login |-> PairLogins[e], name |-> name, role |-> role]
        out == resourceUserCreate(cfg, users, invitations, nextInvitation, k)
    IN  /\ pair[e].id = ""
        /\ k <= Len(out.calls)
        /\ out.nextInvitation # nextInvitation => nextInvitation <= MaxInvitations
        /\ pair' = [pair EXCEPT ![e] = Persist(out.d)]
        /\ invitations' = out.invitations
        /\ nextInvitation' = out.nextInvitation
        /\ last' = Step("create", out.calls,
                       Answers(out.calls, k, users, invitations), out.err, cfg,
                       FALSE, NoOut)
        /\ UNCHANGED <<d, users, nextUser, creating>>

PairRead(e, k) ==
    LET out == resourceUserRead(pair[e], users, invitations, k, 0)
    IN  /\ pair[e].id # ""
        /\ k <= Len(out.calls)
        /\ pair' = [pair EXCEPT ![e] = Persist(out.d)]
        /\ last' = Step("read", out.calls,
                       Answers(out.calls, k, users, invitations), out.err,
                       [login |-> PairLogins[e], name |-> "", role |-> ""],
                       FALSE, NoOut)
        /\ UNCHANGED <<d, users, invitations, nextUser, nextInvitation, creating>>

PairUpdate(e, name, role, k) ==
    LET out == resourceUserUpdate(pair[e], name, role, users, invitations, k)
    IN  /\ pair[e].id # ""
        /\ k <= Len(out.calls)
        /\ pair' = [pair EXCEPT ![e] = Persist(out.d)]
        /\ users' = out.users
        /\ last' = Step("update", out.calls,
                       Answers(out.calls, k, users, invitations), out.err,
                       [login |-> PairLogins[e], name |-> name, role |-> role],
                       FALSE, NoOut)
        /\ UNCHANGED <<d, invitations, nextUser, nextInvitation, creating>>

PairDelete(e, k) ==
    LET out == resourceUserDelete(pair[e], users, invitations, k)
    IN  /\ pair[e].id # ""
        /\ k <= Len(out.calls)
        /\ pair' = [pair EXCEPT ![e] = IF out.err = "" THEN resourceUser
                                       ELSE out.d]
        /\ users' = out.users
        /\ invitations' = out.invitations
        /\ last' = Step("delete", out.calls,
                       Answers(out.calls, k, users, invitations), out.err,
                       [login |-> PairLogins[e], name |-> "", role |-> ""],
                       FALSE, NoOut)
        /\ UNCHANGED <<d, nextUser, nextInvitation, creating>>

NextPair ==
    \/ \E e \in Entities, name \in Names, role \in DefaultRoles,
          k \in 0..CreateCalls :
          PairCreate(e, name, role, k)
    \/ \E e \in Entities, k \in 0..ReadCalls : PairRead(e, k)
    \/ \E e \in Entities, name \in Names, role \in Roles, k \in 0..UpdateCalls :
          PairUpdate(e, name, role, k)
    \/ \E e \in Entities, k \in 0..DeleteCalls : PairDelete(e, k)
    \/ \E i \in 1..MaxInvitations, name \in RemoteNames, keep \in BOOLEAN :
          RemoteAccept(i, name, keep)
    \/ \E login \in Logins, name \in RemoteNames, role \in RemoteRoles :
          RemoteAddUser(login, name, role)

SpecPair == Init /\ [][NextPair]_vars

\* ------------------------------ two Creates of one login, call by call
\* Two invocations of resourceUserCreate for the same login run at once; a
\* step is one remote call of one of them, with what the handler does up to
\* its next call. pc names the call an invocation is about to make.
Invocations == {1, 2}

\* the k of the lookups for a call that fails or does not
FailIf(fail) == IF fail THEN 1 ELSE 0

Invocation(login, name, role) ==
    [pc |-> "GetCurrentUser",
     rd |-> [resourceUser EXCEPT !.login = login, !.name = name, !.role = role],
     calls |-> <<>>, err |-> ""]

InitRace ==
    /\ d = resourceUser
    /\ users \in {<<>>, <<[id |-> UserIDs[1], login |-> "a@x.com",
                           name |-> "Bob", role |-> "user"]>>}
    /\ invitations \in {<<>>, <<[id |-> InvitationIDs[1], email |-> "a@x.com",
                                 role |-> "user", status_code |-> 0]>>}
    /\ nextUser = Len(users) + 1
    /\ nextInvitation = Len(invitations) + 1
    /\ last = Step("init", <<>>, <<>>, "", NoCfg, FALSE, NoOut)
    /\ pair = NoPair
    /\ creating \in {<<Invocation(login, name, r1), Invocation(login, name, r2)>> :
                        login \in ConfigLogins, name \in Names,
                        r1 \in Roles, r2 \in Roles}

\* invocation p goes on to pc with the resource data rd after the calls c
Proceed(p, pc, rd, c) ==
    creating' = [creating EXCEPT ![p].pc = pc, ![p].rd = rd,
                                 ![p].calls = creating[p].calls \o c]

\* invocation p returns, with the error err or with none
Return(p, rd, c, err) ==
    creating' = [creating EXCEPT ![p].pc = "done", ![p].rd = rd,
                                 ![p].calls = creating[p].calls \o c,
                                 ![p].err = err]

RaceFrame == UNCHANGED <<d, users, nextUser, last, pair>>

\* findUserByLogin: conn.GetCurrentUser
RaceGetCurrentUser(p, fail) ==
    /\ creating[p].pc = "GetCurrentUser"
    /\ IF fail
       THEN Return(p, creating[p].rd, <<GetCurrentUserCall>>, "RemoteError")
       ELSE Proceed(p, "ListCustomerUsers", creating[p].rd, <<GetCurrentUserCall>>)
    /\ RaceFrame
    /\ UNCHANGED <<invitations, nextInvitation>>

\* findUserByLogin: conn.ListCustomerUsers and the loop; a user found is
\* adopted and Read comes next
RaceListCustomerUsers(p, fail) ==
    LET rd == creating[p].rd
        f == findUserByLogin(users, rd.login, 2 * FailIf(fail), 0)
        c == <<ListCustomerUsersCall>>
    IN  /\ creating[p].pc = "ListCustomerUsers"
        /\ IF f.err THEN Return(p, rd, c, "RemoteError")
           ELSE IF f.found THEN Proceed(p, "GetUser", AdoptUser(rd, f.user), c)
           ELSE Proceed(p, "ListInvitations", rd, c)
        /\ RaceFrame
        /\ UNCHANGED <<invitations, nextInvitation>>

\* resourceUserRead of the adopted user: conn.GetUser
RaceGetUser(p, fail) ==
    LET r == resourceUserRead(creating[p].rd, users, invitations, FailIf(fail), 0)
    IN  /\ creating[p].pc = "GetUser"
        /\ Return(p, r.d, r.calls, r.err)
        /\ RaceFrame
        /\ UNCHANGED <<invitations, nextInvitation>>

\* findInvitationByEmail: the list request and the loop; an invitation found
\* is adopted
RaceListInvitations(p, fail) ==
    LET rd == creating[p].rd
        g == findInvitationByEmail(invitations, rd.login, FailIf(fail), 0)
    IN  /\ creating[p].pc = "ListInvitations"
        /\ IF g.err THEN Return(p, rd, g.calls, "RemoteError")
           ELSE IF g.found
           THEN Return(p, TrackInvitation(rd, g.invitation.id), g.calls, "")
           ELSE Proceed(p, "GetCurrentUser2", rd, g.calls)
        /\ RaceFrame
        /\ UNCHANGED <<invitations, nextInvitation>>

\* conn.GetCurrentUser for the customer id of the new invitation
RaceGetCurrentUser2(p, fail) ==
    /\ creating[p].pc = "GetCurrentUser2"
    /\ IF fail
       THEN Return(p, creating[p].rd, <<GetCurrentUserCall>>, "RemoteError")
       ELSE Proceed(p, "CreateInvitation", creating[p].rd, <<GetCurrentUserCall>>)
    /\ RaceFrame
    /\ UNCHANGED <<invitations, nextInvitation>>

\* createInvitation; a request that fails (the remote system may refuse a
\* second invitation of an email) creates nothing
RaceCreateInvitation(p, fail) ==
    LET rd == creating[p].rd
        c == createInvitation(invitations, nextInvitation, rd.login, rd.role,
                              CustomerID, FailIf(fail), 0)
    IN  /\ creating[p].pc = "CreateInvitation"
        /\ IF c.err THEN Return(p, rd, c.calls, "RemoteError")
           ELSE Return(p, TrackInvitation(rd, c.id), c.calls, "")
        /\ invitations' = c.invitations
        /\ nextInvitation' = c.nextInvitation
        /\ RaceFrame

NextRace ==
    \E p \in Invocations, fail \in BOOLEAN :
        \/ RaceGetCurrentUser(p, fail)
        \/ RaceListCustomerUsers(p, fail)
        \/ RaceGetUser(p, fail)
        \/ RaceListInvitations(p, fail)
        \/ RaceGetCurrentUser2(p, fail)
        \/ RaceCreateInvitation(p, fail)

SpecRace == InitRace /\ [][NextRace]_vars
\* ============================================================ properties
Pending(rd) == rd.user_id = "" /\ rd.invitation_id # ""
Active(rd) == rd.user_id # ""

HasUser(us, login) == \E i \in 1..Len(us) : us[i].login = login
HasInvitation(invs, email) == \E i \in 1..Len(invs) : invs[i].email = email
UserIds(us) == {us[i].id : i \in 1..Len(us)}
InvitationIds(invs) == {invs[i].id : i \in 1..Len(invs)}

\* rd is Active on the first user of the list that has the login
ActiveOnFirstUser(rd, us, login) ==
    \E i \in 1..Len(us) :
        /\ us[i].login = login
        /\ \A j \in 1..(i - 1) : us[j].login # login
        /\ rd.user_id = us[i].id
        /\ rd.id = us[i].id
        /\ rd.invitation_id = ""

\* rd is Pending on the first invitation of the list that has the email
PendingOnFirstInvitation(rd, invs, email) ==
    \E i \in 1..Len(invs) :
        /\ invs[i].email = email
        /\ \A j \in 1..(i - 1) : invs[j].email # email
        /\ rd.invitation_id = invs[i].id
        /\ rd.id = invs[i].id
        /\ rd.user_id = ""

Posts(calls) == {i \in 1..Len(calls) : calls[i].name = "POST /invitations"}
\* C1: a Create that directly follows a successful Create of the same login
\* and succeeds too yields the same identity (the same resource id, user_id
\* and invitation_id) and leaves the remote user list and invitation list as
\* they were: no second invitation, no user.
C1_CreateTwiceSameIdentity ==
    [][(last'.op = "create" /\ last'.again /\ last'.err = "")
       => /\ d'.id = d.id
          /\ d'.user_id = d.user_id
          /\ d'.invitation_id = d.invitation_id
          /\ Posts(last'.calls) = {}
          /\ users' = users
          /\ invitations' = invitations
          /\ nextInvitation' = nextInvitation]_vars

\* the second of two Creates has run, on an invitation the first one made
C1_Witness ==
    /\ last.op = "create" /\ last.again /\ last.err = ""
    /\ Pending(d)
    /\ d.invitation_id \in InvitationIds(invitations)

\* C2: a successful Read of a Pending entity whose login has a remote user
\* ends Active on that user (user_id and resource id are the user's id,
\* invitation_id is empty), whether or not the invitation is still listed and
\* whatever its status code; and no Read of a Pending entity asks for the
\* invitations before it has listed the users.
C2_ReadPrefersUser ==
    [][(last'.op = "read" /\ Pending(d))
       => /\ (last'.err = "" /\ HasUser(users, d.login))
                => ActiveOnFirstUser(d', users, d.login)
          /\ \A i \in 1..Len(last'.calls) :
                last'.calls[i].name = "GET /invitations"
                => \E j \in 1..(i - 1) :
                      last'.calls[j].name = "ListCustomerUsers"]_vars

\* a Read has moved the entity to Active while its invitation is still listed
C2_Witness ==
    /\ last.op = "read" /\ last.err = ""
    /\ last.calls = <<GetCurrentUserCall, ListCustomerUsersCall>>
    /\ Active(d) /\ d.invitation_id = ""
    /\ \E i \in 1..Len(invitations) :
          invitations[i].email = d.login /\ invitations[i].status_code = 1

\* C3: the entity never holds an invitation id and a user id at once.
C3_NeverBothIdentities == ~(d.invitation_id # "" /\ d.user_id # "")

\* a Read has replaced the invitation id by a user id, the invitation gone
C3_Witness ==
    /\ last.op = "read" /\ last.err = ""
    /\ last.calls = <<GetCurrentUserCall, ListCustomerUsersCall>>
    /\ d.user_id # "" /\ d.invitation_id = ""
    /\ ~HasInvitation(invitations, d.login)

\* C4: after a successful Create, Read, Update or import that leaves the
\* entity present, the resource id is user_id when that is set and
\* invitation_id otherwise.
C4_IdIsAuthoritativeIdentity ==
    (last.op \in {"create", "read", "update", "import"} /\ last.err = "" /\ d.id # "")
    => d.id = (IF d.user_id # "" THEN d.user_id ELSE d.invitation_id)

\* an Update of an Active entity went through and left the id on the user id
C4_Witness ==
    /\ last.op = "update" /\ last.err = ""
    /\ Len(last.calls) = 2
    /\ d.id # "" /\ d.id = d.user_id
\* C5 as stated: every Update of an entity without user_id fails with the
\* precondition error and calls nothing.
C5_UpdatePendingAlwaysFails ==
    [][(last'.op = "update" /\ d.user_id = "")
       => (last'.err = "PreconditionError" /\ last'.calls = <<>>)]_vars

\* C5, amended: an Update of an entity without user_id calls nothing and
\* changes nothing remote; it fails with the precondition error exactly when
\* the configured name or role differs from the state's, and succeeds when
\* neither does.
C5_UpdatePendingNoRemoteCall ==
    [][(last'.op = "update" /\ d.user_id = "")
       => /\ last'.calls = <<>>
          /\ users' = users
          /\ invitations' = invitations
          /\ d'.id = d.id /\ d'.invitation_id = d.invitation_id /\ d'.user_id = ""
          /\ (d'.name # d.name \/ d'.role # d.role)
                => last'.err = "PreconditionError"
          /\ (d'.name = d.name /\ d'.role = d.role) => last'.err = ""]_vars

\* an Update of a Pending entity was refused while the user already exists
C5_Witness ==
    /\ last.op = "update" /\ last.err = "PreconditionError"
    /\ Pending(d)
    /\ HasUser(users, d.login)

\* C6: a Create for a login that has a remote user issues no
\* invitation-creation request and leaves the invitation list alone, and
\* when it succeeds the entity is Active on that user with invitation_id
\* empty.
C6_CreateAdoptsExistingUser ==
    [][(last'.op = "create" /\ HasUser(users, last'.cfg.login))
       => /\ Posts(last'.calls) = {}
          /\ invitations' = invitations
          /\ last'.err = "" => ActiveOnFirstUser(d', users, last'.cfg.login)]_vars

\* a Create has adopted a user although an invitation for the login is listed
C6_Witness ==
    /\ last.op = "create" /\ last.err = ""
    /\ Active(d) /\ d.user_id \in UserIds(users)
    /\ HasInvitation(invitations, d.login)

\* C7: a successful Create for a login without remote user but with a
\* listed invitation ends Pending on that invitation with user_id empty,
\* issues no invitation-creation request and leaves the invitation list as
\* it was.
C7_CreateAdoptsExistingInvitation ==
    [][(/\ last'.op = "create"
        /\ ~HasUser(users, last'.cfg.login)
        /\ HasInvitation(invitations, last'.cfg.login))
       => /\ Posts(last'.calls) = {}
          /\ invitations' = invitations
          /\ last'.err = ""
                => PendingOnFirstInvitation(d', invitations, last'.cfg.login)]_vars

\* a Create has adopted an invitation that was made out of band
C7_Witness ==
    /\ last.op = "create" /\ last.err = "" /\ ~last.again
    /\ Posts(last.calls) = {}
    /\ Pending(d) /\ d.invitation_id \in InvitationIds(invitations)

\* C8: a successful Create for a login with neither remote user nor
\* invitation issues exactly one invitation-creation request, carrying the
\* login, the configured role and the account's customer id, and ends Pending
\* on the invitation the remote system made for it, with user_id empty and
\* login, name and role as configured.
C8_CreateIssuesOneInvitation ==
    [][(/\ last'.op = "create" /\ last'.err = ""
        /\ ~HasUser(users, last'.cfg.login)
        /\ ~HasInvitation(invitations, last'.cfg.login))
       => /\ Cardinality(Posts(last'.calls)) = 1
          /\ \A i \in Posts(last'.calls) :
                /\ last'.calls[i].email = last'.cfg.login
                /\ last'.calls[i].role = last'.cfg.role
                /\ last'.calls[i].customer = CustomerID
          /\ Len(invitations') = Len(invitations) + 1
          /\ \A i \in 1..Len(invitations) : invitations'[i] = invitations[i]
          /\ invitations'[Len(invitations')].email = last'.cfg.login
          /\ invitations'[Len(invitations')].role = last'.cfg.role
          /\ d'.invitation_id = invitations'[Len(invitations')].id
          /\ d'.invitation_id \notin InvitationIds(invitations)
          /\ d'.id = d'.invitation_id
          /\ d'.user_id = ""
          /\ d'.login = last'.cfg.login
          /\ d'.name = last'.cfg.name
          /\ d'.role = last'.cfg.role]_vars

\* a Create has invited the login with the role "engineer"
C8_Witness ==
    /\ last.op = "create" /\ last.err = ""
    /\ Cardinality(Posts(last.calls)) = 1
    /\ Pending(d) /\ d.role = "engineer"
    /\ \E i \in 1..Len(invitations) :
          invitations[i].id = d.invitation_id /\ invitations[i].role = "engineer"

C10_ReadGoneInvitationAbsent ==
    [][(/\ last'.op = "read" /\ Pending(d)
        /\ ~HasUser(users, d.login)
        /\ d.invitation_id \notin InvitationIds(invitations))
       => \/ last'.err = "" /\ d'.id = "" /\ Len(last'.calls) = 3
          \/ last'.err = "RemoteError" /\ d' = d /\ Len(last'.calls) <= 2]_vars

\* a Read has found neither user nor invitation and cleared the id: the
\* invitation list was read, it is empty, and no user is left
C10_Witness ==
    /\ last.op = "read" /\ last.err = ""
    /\ Len(last.calls) = 3
    /\ last.answers[3] = "ok"
    /\ d.id = ""
    /\ users = <<>>
    /\ invitations = <<>> /\ nextInvitation > 1

\* a call of the step was answered with an error other than not-found
Failed(step) == \E i \in 1..Len(step.answers) : step.answers[i] = "error"

\* the call of the step that was answered so
FailedCall(step) ==
    step.calls[CHOOSE i \in 1..Len(step.answers) : step.answers[i] = "error"]

\* C11: a Read one of whose remote calls fails with an error other than
\* not-found returns a failure and leaves the resource id, user_id,
\* invitation_id, login, name and role as they were; a Read that clears the
\* resource id has met no such error.
C11_ReadFailurePropagates ==
    [][(last'.op = "read")
       => /\ Failed(last') => (last'.err = "RemoteError" /\ d' = d)
          /\ (last'.err = "" /\ d'.id = "") => ~Failed(last')]_vars

\* C12: a Create whose user lookup, invitation lookup, current-account
\* lookup or invitation-creation request fails returns a failure and sets no
\* resource id, user_id or invitation_id; when the failing call is not the
\* creation request, no creation request is issued and the invitation list
\* stays as it was.
C12_CreateFailsOnLookupError ==
    [][(/\ last'.op = "create" /\ Failed(last')
        /\ FailedCall(last').name \in
              {"GetCurrentUser", "ListCustomerUsers", "GET /invitations",
               "POST /invitations"})
       => /\ last'.err = "RemoteError"
          /\ d'.id = "" /\ d'.user_id = "" /\ d'.invitation_id = ""
          /\ FailedCall(last').name # "POST /invitations"
                => (Posts(last'.calls) = {} /\ invitations' = invitations)]_vars

\* a Create has failed on the invitation list, after the user lookup went
\* through, and has issued no creation request
C12_Witness ==
    /\ last.op = "create" /\ last.err = "RemoteError"
    /\ Len(last.calls) = 3
    /\ last.answers = <<"ok", "ok", "error">>
    /\ last.calls[3] = ListInvitationsCall
    /\ d.id = ""
    /\ invitations = <<>>

\* C13: a Delete of an Active entity issues one delete-user request for its
\* user_id; when the answer is not-found (the user is already gone) or a
\* success the Delete returns success, and when the request fails otherwise
\* the Delete returns a failure and nothing changes.
C13_DeleteActiveNotFoundIsSuccess ==
    [][(last'.op = "delete" /\ Active(d))
       => /\ last'.calls = <<DeleteUserCall(d.user_id)>>
          /\ last'.answers[1] = "notfound"
                => (last'.err = "" /\ users' = users /\ d'.id = "")
          /\ last'.answers[1] = "ok"
                => (last'.err = "" /\ d.user_id \notin UserIds(users')
                    /\ d'.id = "")
          /\ last'.answers[1] = "error"
                => (last'.err = "RemoteError" /\ users' = users /\ d' = d)
          /\ invitations' = invitations]_vars

\* a Delete has succeeded on a user that was gone already
C13_Witness ==
    /\ last.op = "delete" /\ last.err = ""
    /\ Len(last.calls) = 1 /\ last.calls[1].name = "DeleteUser"
    /\ last.answers = <<"notfound">>
    /\ d.id = ""

\* C14: a Delete of a Pending entity returns success whatever the answer to
\* the invitation-delete request, and issues exactly that one request, for
\* its invitation_id, and no delete-user request; the user list is untouched.
C14_DeletePendingAlwaysSucceeds ==
    [][(last'.op = "delete" /\ Pending(d))
       => /\ last'.err = ""
          /\ last'.calls = <<DeleteInvitationCall(d.invitation_id)>>
          /\ users' = users
          /\ d'.id = ""]_vars

\* a Delete has returned success although its invitation-delete request failed
C14_Witness ==
    /\ last.op = "delete" /\ last.err = ""
    /\ Len(last.calls) = 1 /\ last.calls[1].name = "DELETE /invitations"
    /\ last.answers = <<"error">>
    /\ d.id = ""

\* C15 as stated: after a Delete that returned success, no user has the
\* user_id the entity held and no invitation has the invitation_id it held.
C15_DeletedIdentityIsGone ==
    [][(last'.op = "delete" /\ last'.err = "")
       => /\ d.user_id \notin UserIds(users')
          /\ d.invitation_id \notin InvitationIds(invitations')]_vars

\* C15, amended: after a Delete that returned success, no user has the
\* user_id the entity held, and no invitation has the invitation_id it held
\* unless the invitation-delete request failed with an error other than
\* not-found; then the Delete has returned success all the same and the
\* invitation list is as it was.
C15_DeletedIdentityIsGoneUnlessRequestFailed ==
    [][(last'.op = "delete" /\ last'.err = "")
       => /\ d.user_id \notin UserIds(users')
          /\ ~Failed(last')
                => d.invitation_id \notin InvitationIds(invitations')
          /\ Failed(last')
                => (Pending(d) /\ invitations' = invitations)]_vars

\* a Delete has returned success and its invitation is still listed
C15_Witness ==
    /\ last.op = "delete" /\ last.err = ""
    /\ last.answers = <<"error">>
    /\ last.calls[1].name = "DELETE /invitations"
    /\ last.calls[1].id \in InvitationIds(invitations)
    /\ d.id = ""

\* C16: a Read of an Active entity issues one get-user request for its
\* user_id; answered not-found, the Read returns success and the resource id
\* is cleared; answered with the user, the Read returns success, login, name
\* and role are the user's, and user_id, invitation_id and the resource id
\* are as before.
C16_ReadActiveRefreshes ==
    [][(last'.op = "read" /\ Active(d))
       => /\ last'.calls = <<GetUserCall(d.user_id)>>
          /\ last'.answers[1] = "notfound" => (last'.err = "" /\ d'.id = "")
          /\ last'.answers[1] = "ok"
                => /\ last'.err = ""
                   /\ \E i \in 1..Len(users) :
                         /\ users[i].id = d.user_id
                         /\ d' = [d EXCEPT !.login = users[i].login,
                                           !.name = users[i].name,
                                           !.role = users[i].role]]_vars

\* a Read has found the user of an Active entity gone and cleared the id
C16_Witness ==
    /\ last.op = "read" /\ last.err = ""
    /\ Len(last.calls) = 1 /\ last.calls[1].name = "GetUser"
    /\ last.answers = <<"notfound">>
    /\ d.id = ""

\* C17 as stated: a Read of a state whose user_id and invitation_id are both
\* empty (the state an import by id hands over) issues no remote call,
\* returns success and leaves every field as it was.
C17_ReadAbsentIsNoOp ==
    [][((last'.op = "read" /\ d.user_id = "" /\ d.invitation_id = "")
        \/ last'.op = "import")
       => /\ last'.calls = <<>>
          /\ last'.err = ""
          /\ d'.user_id = "" /\ d'.invitation_id = ""
          /\ d'.login = "" /\ d'.name = "" /\ d'.role = ""]_vars

\* C17, amended: a Read of a state whose user_id and invitation_id are both
\* empty and whose resource id is set issues exactly one remote call, a
\* get-user request for the resource id, and changes nothing remote; answered
\* with a user it returns success with user_id set to the resource id,
\* answered not-found it returns success with the resource id cleared, and
\* on any other error it fails and nothing is kept.
C17_ReadOfBareIdFetchesUser ==
    [][(last'.op = "import")
       => /\ Len(last'.calls) = 1
          /\ last'.calls[1].name = "GetUser" /\ last'.calls[1].id # ""
          /\ users' = users /\ invitations' = invitations
          /\ last'.answers[1] = "ok"
                => (last'.err = "" /\ d'.id = last'.calls[1].id
                    /\ d'.user_id = d'.id)
          /\ last'.answers[1] = "notfound" => (last'.err = "" /\ d'.id = "")
          /\ last'.answers[1] = "error"
                => (last'.err = "RemoteError" /\ d' = d)]_vars

\* the id of a listed invitation was imported: one get-user request, answered
\* not-found, and the id is cleared
C17_Witness ==
    /\ last.op = "import" /\ last.err = ""
    /\ last.answers = <<"notfound">>
    /\ last.calls[1].id \in InvitationIds(invitations)
    /\ d.id = ""

Mutating(calls) ==
    {i \in 1..Len(calls) :
        calls[i].name \in {"POST /invitations", "UpdateUser", "DeleteUser",
                           "DELETE /invitations"}}

\* C18: no handler run issues more than one mutating request
\* (create-invitation, update-user, delete-user, delete-invitation), none
\* issues a request again after that request failed, and Read, import and
\* the two data sources issue no mutating request.
C18_AtMostOneMutation ==
    /\ Cardinality(Mutating(last.calls)) <= 1
    /\ \A i \in 1..Len(last.calls) :
          last.answers[i] = "error"
          => \A j \in (i + 1)..Len(last.calls) : last.calls[j] # last.calls[i]
    /\ last.op \in {"read", "import", "data_users", "data_invitations"}
          => Mutating(last.calls) = {}

\* a Create has ended on its failed creation request, the fifth call, after
\* asking for the current account twice
C18_Witness ==
    /\ last.op = "create" /\ last.err = "RemoteError"
    /\ Len(last.calls) = 5
    /\ last.answers = <<"ok", "ok", "ok", "ok", "error">>
    /\ Mutating(last.calls) = {5}
    /\ invitations = <<>>

\* C19: an Update of an Active entity whose configured name or role differs
\* from the state's issues, first, one update-user request for its user_id
\* with the configured name and role; when that request fails (not-found
\* included) the Update fails and no other call is made; when it succeeds the
\* remote user carries the configured name and role and one get-user request
\* for the same id follows; and an Update that returns success leaves the
\* entity Active with the same user_id and resource id and the configured
\* name and role.
C19_UpdateActive ==
    [][(/\ last'.op = "update" /\ Active(d)
        /\ (last'.cfg.name # d.name \/ last'.cfg.role # d.role))
       => /\ Len(last'.calls) >= 1
          /\ last'.calls[1] =
                UpdateUserCall(d.user_id, last'.cfg.name, last'.cfg.role)
          /\ Cardinality(Mutating(last'.calls)) = 1
          /\ last'.answers[1] # "ok"
                => (last'.err = "RemoteError" /\ Len(last'.calls) = 1
                    /\ users' = users)
          /\ last'.answers[1] = "ok"
                => /\ last'.calls =
                         <<UpdateUserCall(d.user_id, last'.cfg.name,
                                          last'.cfg.role),
                           GetUserCall(d.user_id)>>
                   /\ \E i \in 1..Len(users') :
                         /\ users'[i].id = d.user_id
                         /\ users'[i].name = last'.cfg.name
                         /\ users'[i].role = last'.cfg.role
          /\ last'.err = ""
                => /\ Active(d')
                   /\ d'.user_id = d.user_id /\ d'.id = d.id
                   /\ d'.invitation_id = ""
                   /\ d'.name = last'.cfg.name /\ d'.role = last'.cfg.role]_vars

\* an Update has changed the role of the remote user to "engineer" and read
\* it back
C19_Witness ==
    /\ last.op = "update" /\ last.err = ""
    /\ last.answers = <<"ok", "ok">>
    /\ last.calls[1].name = "UpdateUser" /\ last.calls[1].role = "engineer"
    /\ Active(d) /\ d.role = "engineer"
    /\ \E i \in 1..Len(users) :
          users[i].id = d.user_id /\ users[i].role = "engineer"

\* C20: a successful import of an id (a Read of a state with only the
\* resource id set) ends, when a remote user has that id, Active with user_id
\* equal to the resource id, invitation_id empty and login, name and role
\* those of that user; when no user has the id the resource id is cleared.
C20_ImportByUserId ==
    [][(last'.op = "import" /\ last'.err = "")
       => LET id == last'.calls[1].id
          IN  IF id \in UserIds(users)
              THEN \E i \in 1..Len(users) :
                      /\ users[i].id = id
                      /\ d' = [id |-> id, user_id |-> id, invitation_id |-> "",
                               login |-> users[i].login, name |-> users[i].name,
                               role |-> users[i].role]
              ELSE d'.id = ""]_vars

\* a user whose login no configuration gives has been imported by id
C20_Witness ==
    /\ last.op = "import" /\ last.err = ""
    /\ d.id # "" /\ d.user_id = d.id /\ d.invitation_id = ""
    /\ d.login \notin ConfigLogins
    /\ \E i \in 1..Len(users) :
          users[i].id = d.id /\ users[i].login = d.login

\* C23: a read of the users data source, or of the invitations data source,
\* fails exactly when its account lookup or its list call fails, and then
\* sets no id and no entries; when it succeeds its id is the customer id of
\* the current account and its entries are the remote records, one entry per
\* record, in list order, field for field.
C23_DataSourcesListVerbatim ==
    /\ last.op \in {"data_users", "data_invitations"}
          => /\ Failed(last) <=> last.err = "RemoteError"
             /\ last.err # "" => (last.out.id = "" /\ last.out.items = <<>>)
             /\ last.err = "" => last.out.id = CustomerID
    /\ (last.op = "data_users" /\ last.err = "")
          => /\ Len(last.out.items) = Len(users)
             /\ \A i \in 1..Len(users) :
                   /\ last.out.items[i].id = users[i].id
                   /\ last.out.items[i].login = users[i].login
                   /\ last.out.items[i].name = users[i].name
                   /\ last.out.items[i].role = users[i].role
    /\ (last.op = "data_invitations" /\ last.err = "")
          => /\ Len(last.out.items) = Len(invitations)
             /\ \A i \in 1..Len(invitations) :
                   last.out.items[i] = invitations[i]

\* the invitations data source has listed an invitation that is accepted
\* already
C23_Witness ==
    /\ last.op = "data_invitations" /\ last.err = ""
    /\ last.out.id = CustomerID
    /\ Len(last.out.items) = 1
    /\ last.out.items[1].status_code = 1
    /\ users # <<>>

\* C24: when a Read moves a Pending entity to Active, and when a successful
\* Create ends Active, name and role of the state are those of the remote
\* user it is Active on, whatever was configured and whatever role the
\* invitation carries; the handler issues no mutating request, and the user
\* list and the invitation list are as before.
C24_AdoptionTakesRemoteAttributes ==
    [][(\/ last'.op = "read" /\ Pending(d) /\ Active(d')
        \/ last'.op = "create" /\ last'.err = "" /\ Active(d'))
       => /\ \E i \in 1..Len(users) :
                /\ users[i].id = d'.user_id
                /\ d'.name = users[i].name
                /\ d'.role = users[i].role
          /\ Mutating(last'.calls) = {}
          /\ users' = users
          /\ invitations' = invitations]_vars

\* a Read has moved the entity to Active with the user's role "user" while
\* its invitation, with the role "engineer", is still listed
C24_Witness ==
    /\ last.op = "read" /\ last.err = ""
    /\ last.answers = <<"ok", "ok">>
    /\ Active(d) /\ d.role = "user"
    /\ \E i \in 1..Len(invitations) :
          invitations[i].email = d.login /\ invitations[i].role = "engineer"

\* C25 as stated: a Read of a Pending entity whose login has no remote user
\* and whose invitation is listed leaves every field of the state as it was.
C25_ReadPendingUnchanged ==
    [][(/\ last'.op = "read" /\ Pending(d)
        /\ ~HasUser(users, d.login)
        /\ d.invitation_id \in InvitationIds(invitations))
       => d' = d]_vars

\* C26: a Read, Update or Delete of an Active entity leaves it Active on the
\* same user_id with invitation_id empty, or leaves no entity (the resource
\* id cleared); of a Pending entity it leaves the entity Pending on the same
\* invitation_id, or Active with invitation_id empty, or no entity.
C26_IdentityMovesForward ==
    [][(last'.op \in {"read", "update", "delete"})
       => /\ Active(d)
                => \/ d'.id = ""
                   \/ d'.user_id = d.user_id /\ d'.invitation_id = ""
          /\ Pending(d)
                => \/ d'.id = ""
                   \/ Pending(d') /\ d'.invitation_id = d.invitation_id
                   \/ Active(d') /\ d'.invitation_id = ""]_vars

\* a Read has left an entity Active although an invitation for its login is
\* listed again
C26_Witness ==
    /\ last.op = "read" /\ last.err = ""
    /\ Len(last.calls) = 1 /\ last.calls[1] = GetUserCall(d.user_id)
    /\ Active(d) /\ d.invitation_id = ""
    /\ \E i \in 1..Len(invitations) :
          invitations[i].email = d.login /\ invitations[i].status_code = 0

\* C27 as stated: after a Delete that returned success the remote system
\* holds neither a user nor an invitation for the login of the entity.
C27_DeleteLeavesNothingForLogin ==
    [][(last'.op = "delete" /\ last'.err = "")
       => /\ ~HasUser(users', d.login)
          /\ ~HasInvitation(invitations', d.login)]_vars

\* C27, amended: a Delete that returned success has removed the identity the
\* state held and nothing else: of an Active entity the user of its user_id,
\* the invitation list untouched; of a Pending entity the invitation of its
\* invitation_id (unless the invitation-delete request failed), the user list
\* untouched, so that a user who accepted the invitation after the last Read
\* stays in the account.
C27_DeleteRemovesTrackedIdentityOnly ==
    [][(last'.op = "delete" /\ last'.err = "")
       => /\ Active(d)
                => /\ d.user_id \notin UserIds(users')
                   /\ \A i \in 1..Len(users) :
                         users[i].id # d.user_id
                         => \E j \in 1..Len(users') : users'[j] = users[i]
                   /\ invitations' = invitations
          /\ Pending(d)
                => /\ users' = users
                   /\ ~Failed(last')
                         => d.invitation_id \notin InvitationIds(invitations')
                   /\ \A i \in 1..Len(invitations) :
                         invitations[i].id # d.invitation_id
                         => \E j \in 1..Len(invitations') :
                               invitations'[j] = invitations[i]]_vars

\* a Delete of a Pending entity has succeeded, its invitation is gone, and the
\* user who accepted it is in the account
C27_Witness ==
    /\ last.op = "delete" /\ last.err = ""
    /\ last.calls[1].name = "DELETE /invitations"
    /\ ~Failed(last)
    /\ invitations = <<>>
    /\ \E i \in 1..Len(users) : users[i].login \in ConfigLogins
    /\ d.id = ""

\* C22: a successful Create adopts the first user of the list whose login is
\* the configured login character for character; when there is none, the
\* first invitation of the list whose email is that login; and when there is
\* none either, it creates an invitation. A record whose login differs from
\* the configured one in case only is passed over.
C22_FirstExactMatch ==
    [][(last'.op = "create" /\ last'.err = "")
       => LET login == last'.cfg.login
          IN  IF HasUser(users, login)
              THEN ActiveOnFirstUser(d', users, login) /\ d'.login = login
              ELSE IF HasInvitation(invitations, login)
              THEN /\ PendingOnFirstInvitation(d', invitations, login)
                   /\ Posts(last'.calls) = {}
              ELSE /\ Cardinality(Posts(last'.calls)) = 1
                   /\ Pending(d')
                   /\ d'.invitation_id \notin InvitationIds(invitations)]_vars

\* Create has adopted the first of two users that carry the login, while the
\* first invitation of the list carries it in another case
C22_Witness ==
    /\ last.op = "create" /\ last.err = ""
    /\ Len(users) = 2
    /\ users[1].login = d.login /\ users[2].login = d.login
    /\ d.user_id = users[1].id /\ d.id = users[1].id
    /\ Len(invitations) >= 1
    /\ invitations[1].email # d.login
    /\ Fold(invitations[1].email) = Fold(d.login)

\* both invocations of Create have returned, and without error
BothReturned == \A p \in Invocations : creating[p].pc = "done"
BothSucceeded == BothReturned /\ \A p \in Invocations : creating[p].err = ""

\* the invocations that have issued an invitation-creation request that
\* went through
Created == {p \in Invocations : creating[p].pc = "done" /\ creating[p].err = ""
                                /\ Posts(creating[p].calls) # {}}

\* C28 as stated: of two Creates of one login that interleave call by call,
\* at most one creates an invitation, and when both have returned success
\* they hold the same identity.
C28_ConcurrentCreatesAgree ==
    /\ Cardinality(Created) <= 1
    /\ BothSucceeded
          => /\ creating[1].rd.id = creating[2].rd.id
             /\ creating[1].rd.user_id = creating[2].rd.user_id
             /\ creating[1].rd.invitation_id = creating[2].rd.invitation_id

\* C28, amended: each of the two Creates issues at most one creation request;
\* when both have returned success and at most one of them has created an
\* invitation they hold the same identity; when both have created one (each
\* listed the invitations before the other's was there) the login has two
\* invitations and the two hold different identities, each its own
\* invitation.
C28_ConcurrentCreatesMayDuplicate ==
    /\ \A p \in Invocations : Cardinality(Posts(creating[p].calls)) <= 1
    /\ (BothSucceeded /\ Cardinality(Created) <= 1)
          => /\ creating[1].rd.id = creating[2].rd.id
             /\ creating[1].rd.id # ""
             /\ creating[1].rd.user_id = creating[2].rd.user_id
             /\ creating[1].rd.invitation_id = creating[2].rd.invitation_id
    /\ Cardinality(Created) = 2
          => /\ creating[1].rd.invitation_id # creating[2].rd.invitation_id
             /\ \A p \in Invocations :
                   /\ Pending(creating[p].rd)
                   /\ creating[p].rd.id = creating[p].rd.invitation_id
                   /\ \E i \in 1..Len(invitations) :
                         /\ invitations[i].id = creating[p].rd.invitation_id
                         /\ invitations[i].email = creating[p].rd.login

\* both Creates have created an invitation for the login
C28_Witness ==
    /\ BothSucceeded
    /\ Created = Invocations
    /\ Len(invitations) = 2
    /\ invitations[1].email = invitations[2].email
    /\ creating[1].rd.id # creating[2].rd.id

\* the users, the invitations, that carry the login, in list order
UsersOf(us, login) == SelectSeq(us, LAMBDA u : u.login = login)
InvitationsOf(invs, login) == SelectSeq(invs, LAMBDA i : i.email = login)
UsersNotOf(us, login) == SelectSeq(us, LAMBDA u : u.login # login)
InvitationsNotOf(invs, login) == SelectSeq(invs, LAMBDA i : i.email # login)

\* the position of the failed call of a step, 0 when none failed
FailedAt(step) ==
    IF Failed(step)
    THEN CHOOSE i \in 1..Len(step.answers) : step.answers[i] = "error"
    ELSE 0

\* what the handler of the step leaves when it runs on the entity rd against
\* an account that holds the records us and invs only
Alone(step, rd, us, invs, nextInv) ==
    LET k == FailedAt(step)
        c == resourceUserCreate(step.cfg, us, invs, nextInv, k)
        r == resourceUserRead(rd, us, invs, k, 0)
        u == resourceUserUpdate(rd, step.cfg.name, step.cfg.role, us, invs, k)
        x == resourceUserDelete(rd, us, invs, k)
    IN  CASE step.op = "create" ->
               [d |-> Persist(c.d), err |-> c.err, users |-> us,
                invitations |-> c.invitations]
          [] step.op = "read" ->
               [d |-> Persist(r.d), err |-> r.err, users |-> us,
                invitations |-> invs]
          [] step.op = "update" ->
               [d |-> Persist(u.d), err |-> u.err, users |-> u.users,
                invitations |-> invs]
          [] step.op = "delete" ->
               [d |-> IF x.err = "" THEN resourceUser ELSE x.d, err |-> x.err,
                users |-> x.users, invitations |-> x.invitations]

====
